---------------------------- MODULE Spec2Model ----------------------------
(***************************************************************************)
(* Model of roggerzilla/bot_stripe: the Stripe webhook endpoint            *)
(* (stripe_server.py: stripe_webhook) and the account store primitives it  *)
(* calls (database.py: get_user, add_user, update_user_points).            *)
(*                                                                         *)
(* Each webhook delivery is one handler slot h.  The store calls of        *)
(* database.py are separate actions (a SELECT, then an UPDATE or INSERT),  *)
(* so that handlers running in separate server processes interleave at the *)
(* store boundary.                                                         *)
(***************************************************************************)
EXTENDS Integers, Sequences, FiniteSets, Bags, TLC

(***************************************************************************)
(* Bounds of the model.                                                    *)
(***************************************************************************)
NumHandlers == 2
NumAdders == 2

Handlers == 1..NumHandlers
Adders == 1..NumAdders

(***************************************************************************)
(* Python values.  A metadata value is absent (dict.get gives None) or a   *)
(* string, kept as its sequence of characters so that int() parses it.     *)
(***************************************************************************)
NoneStr == "<None>"
Absent == [present |-> FALSE, chars |-> <<>>]
Str(s) == [present |-> TRUE, chars |-> s]

DigitChars == <<"0", "1", "2", "3", "4", "5", "6", "7", "8", "9">>
IsDigit(c) == \E i \in 1..10 : DigitChars[i] = c
DigitVal(c) == (CHOOSE i \in 1..10 : DigitChars[i] = c) - 1
IsSpace(c) == c = " "

RECURSIVE LStrip(_)
LStrip(s) == IF s # <<>> /\ IsSpace(Head(s)) THEN LStrip(Tail(s)) ELSE s

RECURSIVE RStrip(_)
RStrip(s) ==
    IF s # <<>> /\ IsSpace(s[Len(s)]) THEN RStrip(SubSeq(s, 1, Len(s) - 1)) ELSE s

\* Digits with single underscores between them (Python's integer literal
\* grammar, which int() accepts): the value, or -1 when s is not of that shape.
RECURSIVE DigitsValue(_, _, _)
DigitsValue(s, acc, prevDigit) ==
    IF s = <<>> THEN (IF prevDigit THEN acc ELSE -1)
    ELSE IF IsDigit(Head(s)) THEN DigitsValue(Tail(s), 10 * acc + DigitVal(Head(s)), TRUE)
    ELSE IF Head(s) = "_" /\ prevDigit THEN DigitsValue(Tail(s), acc, FALSE)
    ELSE -1

\* int(v): [ok, val].  None raises TypeError; a string is stripped, takes one
\* optional sign and then digits, and raises ValueError otherwise.  Both
\* exceptions are caught together by the callers (except (ValueError, TypeError)).
PyInt(v) ==
    IF ~v.present THEN [ok |-> FALSE, val |-> 0]
    ELSE LET t == RStrip(LStrip(v.chars))
             signed == t # <<>> /\ Head(t) \in {"+", "-"}
             body == IF signed THEN Tail(t) ELSE t
             n == DigitsValue(body, 0, FALSE)
         IN  IF n < 0 THEN [ok |-> FALSE, val |-> 0]
             ELSE IF signed /\ Head(t) = "-" THEN [ok |-> TRUE, val |-> 0 - n]
             ELSE [ok |-> TRUE, val |-> n]

\* A value of a JSON request body: null (also what dict.get gives for a
\* missing key), an integer, a string or a boolean.
JNull == [kind |-> "null", int |-> 0, str |-> <<>>]
JInt(n) == [kind |-> "int", int |-> n, str |-> <<>>]
JStr(s) == [kind |-> "str", int |-> 0, str |-> s]
JBool(b) == [kind |-> "bool", int |-> IF b THEN 1 ELSE 0, str |-> <<>>]

RECURSIVE NatChars(_)
NatChars(n) ==
    IF n < 10 THEN <<DigitChars[n + 1]>>
    ELSE NatChars(n \div 10) \o <<DigitChars[(n % 10) + 1]>>

\* str(v): the decimal digits of an integer, "None" for None, "True" or
\* "False" for a boolean, the string itself for a string.
PyStr(v) ==
    IF v.kind = "null" THEN <<"N", "o", "n", "e">>
    ELSE IF v.kind = "int"
    THEN (IF v.int < 0 THEN <<"-">> \o NatChars(0 - v.int) ELSE NatChars(v.int))
    ELSE IF v.kind = "bool"
    THEN (IF v.int = 1 THEN <<"T", "r", "u", "e">> ELSE <<"F", "a", "l", "s", "e">>)
    ELSE v.str

\* isinstance(v, int): bool is a subclass of int.
IsInstanceInt(v) == v.kind \in {"int", "bool"}

\* A metadata value as Stripe stores it from the request parameters: a None
\* parameter is left out, a boolean is sent as "true" or "false", anything
\* else as its string.
StripeValue(v) ==
    IF v.kind = "null" THEN Absent
    ELSE IF v.kind = "bool"
    THEN Str(IF v.int = 1 THEN <<"t", "r", "u", "e">> ELSE <<"f", "a", "l", "s", "e">>)
    ELSE Str(PyStr(v))

\* Truthiness of an optional string (None and "" are falsy).
Truthy(s) == s # NoneStr /\ s # ""

(***************************************************************************)
(* Configuration of stripe_server.py.                                      *)
(***************************************************************************)
PROJECT_IDENTIFIER == "monkeyvideos"
STRIPE_WEBHOOK_SECRET == "whsec_this"

POINT_PACKAGES ==
    [p200 |-> [label |-> "500 points", amount |-> 399, points |-> 500, priority_boost |-> 1],
     p500 |-> [label |-> "2000 points", amount |-> 999, points |-> 2000, priority_boost |-> 1],
     p1000 |-> [label |-> "5000 points", amount |-> 1999, points |-> 5000, priority_boost |-> 1]]

DefaultPriorityBoost == 2

\* The names the database module defines, and the names stripe_server.py
\* binds at module level.  Looking up any other name raises AttributeError
\* (on the module) or NameError (a global).
DatabaseAttrs == {"get_user", "add_user", "update_user_points", "get_user_points"}
ServerGlobals == {"os", "logging", "json", "datetime", "create_client", "Client",
                  "load_dotenv", "Bot", "FastAPI", "Request", "Header",
                  "HTTPException", "JSONResponse", "stripe", "app",
                  "STRIPE_WEBHOOK_SECRET", "BOT_TOKEN", "bot", "POINT_PACKAGES",
                  "PROJECT_IDENTIFIER", "crear_sesion", "stripe_webhook"}


(***************************************************************************)
(* Payment events and their deliveries.                                    *)
(***************************************************************************)
Meta(proj, uid, pkg, pts, boost) ==
    [project |-> proj, telegram_user_id |-> uid, package_id |-> pkg,
     points_awarded |-> pts, priority_boost |-> boost]

Event(id, type, meta) == [id |-> id, type |-> type, metadata |-> meta]

CheckoutCompleted == "checkout.session.completed"
PaymentFailedType == "payment_intent.payment_failed"

U1 == Str(<<"1">>)
U2 == Str(<<"2">>)
P500 == Str(<<"5", "0", "0">>)
P2000 == Str(<<"2", "0", "0", "0">>)

\* The events the provider sends.  Stripe stores no empty metadata value
\* (an empty value unsets the key), so every present value is non-empty.
EvNormal == Event("evt_1", CheckoutCompleted, Meta(PROJECT_IDENTIFIER, U1, "p200", P500, Str(<<"1">>)))
EvSecond == Event("evt_2", CheckoutCompleted, Meta(PROJECT_IDENTIFIER, U1, "p500", P2000, Str(<<"0">>)))
EvOtherTenant == Event("evt_3", CheckoutCompleted, Meta("otherproject", U1, "p200", P500, Str(<<"0">>)))
EvBadUser == Event("evt_4", CheckoutCompleted, Meta(PROJECT_IDENTIFIER, Str(<<"a", "b">>), "p200", P500, Str(<<"1">>)))
EvNoUser == Event("evt_5", CheckoutCompleted, Meta(PROJECT_IDENTIFIER, Absent, "p200", P500, Str(<<"1">>)))
EvBadPoints == Event("evt_6", CheckoutCompleted, Meta(PROJECT_IDENTIFIER, U1, "p200", Str(<<"x", "y">>), Str(<<"0">>)))
EvBadPackage == Event("evt_8", CheckoutCompleted, Meta(PROJECT_IDENTIFIER, U1, "p9999", P500, Str(<<"1">>)))
EvUser2 == Event("evt_9", CheckoutCompleted, Meta(PROJECT_IDENTIFIER, U2, "p200", P500, Str(<<"1">>)))
EvNegative == Event("evt_10", CheckoutCompleted, Meta(PROJECT_IDENTIFIER, U1, "p200", Str(<<"-", "7", "0", "0">>), Str(<<"4">>)))
EvNoBoost == Event("evt_11", CheckoutCompleted, Meta(PROJECT_IDENTIFIER, U1, "p1000", Str(<<"5", "0", "0", "0">>), Absent))
EvNoProject == Event("evt_12", CheckoutCompleted, Meta(NoneStr, U1, "p200", Absent, Str(<<"1">>)))
EvFailed == Event("evt_13", PaymentFailedType, Meta(NoneStr, U1, NoneStr, Absent, Absent))
EvFailedOther == Event("evt_14", PaymentFailedType, Meta("otherproject", U1, NoneStr, Absent, Absent))
EvFailedNoUser == Event("evt_15", PaymentFailedType, Meta(NoneStr, Absent, NoneStr, Absent, Absent))
EvCharge == Event("evt_16", "charge.succeeded", Meta(NoneStr, Absent, NoneStr, Absent, Absent))
EvChargeOther == Event("evt_17", "charge.succeeded", Meta("otherproject", U1, "p200", P500, Str(<<"0">>)))

Events == {EvNormal, EvSecond, EvOtherTenant, EvBadUser, EvNoUser, EvBadPoints,
           EvBadPackage, EvUser2, EvNegative, EvNoBoost, EvNoProject,
           EvFailed, EvFailedOther, EvFailedNoUser, EvCharge, EvChargeOther}

\* A request body and its Stripe-Signature header.  The header is missing, or
\* a signature made with some secret over some body at a time that is within
\* the tolerance window or not.
Payload(wf, e) == [wellformed |-> wf, event |-> e]
NoHeader == [present |-> FALSE, secret |-> "", over |-> Payload(FALSE, EvNormal), fresh |-> FALSE]
Sig(secret, body, fresh) == [present |-> TRUE, secret |-> secret, over |-> body, fresh |-> fresh]
Request(body, header) == [payload |-> body, stripe_signature |-> header]

Signed(e) == Request(Payload(TRUE, e), Sig(STRIPE_WEBHOOK_SECRET, Payload(TRUE, e), TRUE))

Requests ==
    {Signed(e) : e \in Events} \cup
    {Request(Payload(TRUE, EvNormal), NoHeader),
     Request(Payload(TRUE, EvNormal), Sig("whsec_forged", Payload(TRUE, EvNormal), TRUE)),
     Request(Payload(TRUE, EvSecond), Sig(STRIPE_WEBHOOK_SECRET, Payload(TRUE, EvNormal), TRUE)),
     Request(Payload(TRUE, EvNormal), Sig(STRIPE_WEBHOOK_SECRET, Payload(TRUE, EvNormal), FALSE)),
     Request(Payload(FALSE, EvNormal), Sig(STRIPE_WEBHOOK_SECRET, Payload(FALSE, EvNormal), TRUE))}

(***************************************************************************)
(* The account store: the rows of table "users", in insertion order.       *)
(***************************************************************************)
UserIds == {1, 2}
NoPriority == [set |-> FALSE, val |-> 0]
Priority(n) == [set |-> TRUE, val |-> n]
NoRef == 0

Row(uid, pts, prio, ref, at) ==
    [user_id |-> uid, points |-> pts, priority |-> prio, referred_by |-> ref,
     created_at |-> at]
NoRow == [user_id |-> 0, points |-> 0, priority |-> NoPriority, referred_by |-> NoRef,
          created_at |-> 0]

\* supabase.table("users").select("*").eq("user_id", uid): the matching rows.
SelectUsers(table, uid) == SelectSeq(table, LAMBDA r : r.user_id = uid)

\* A get_user that stands in an empty account when there is none.
FirstOrBlank(data) == IF data # <<>> THEN [found |-> TRUE, row |-> data[1]]
                      ELSE [found |-> TRUE,
                            row |-> [user_id |-> 0, points |-> 0,
                                     priority |-> [set |-> FALSE, val |-> 0],
                                     referred_by |-> 0, created_at |-> 0]]

\* get_user's result from the response data: data[0] if data else None.
FirstOrNone(data) == IF data # <<>> THEN [found |-> TRUE, row |-> data[1]]
                     ELSE [found |-> FALSE, row |-> NoRow]

\* .update({"points": p}).eq("user_id", uid): every matching row gets points p.
UpdatePointsWhere(table, uid, p) ==
    [i \in 1..Len(table) |->
        IF table[i].user_id = uid THEN [table[i] EXCEPT !.points = p] ELSE table[i]]

\* update_user_points computes the new balance from the row it read.
NewPoints(user, amount) == user.points + amount

VARIABLES
    users,      \* the rows of table "users"
    clock,      \* datetime.utcnow(), as a count of inserts
    bot,        \* whether BOT_TOKEN was configured (bot is not None)
    users0,     \* the table at start (history, never read by an action)
    applied,    \* the events whose UPDATE succeeded, with how often (history)
    pc,         \* pc[h]: where handler h is in stripe_webhook
    request,    \* request[h]: the delivery handler h received
    event,      \* event[h]: the event construct_event returned
    local,      \* local[h]: user_id, points_awarded, priority_boost, user
    response,   \* response[h]: the HTTP response of the handler
    trace,      \* trace[h]: the store, notifier and log calls made, in order
    apc,        \* apc[a]: where caller a is in add_user
    aargs,      \* aargs[a]: the arguments of add_user
    aresult,    \* aresult[a]: what add_user returned
    cpc,        \* where the caller of /crear-sesion is
    data,       \* data: the JSON body of the /crear-sesion request
    cresponse,  \* the HTTP response of crear_sesion
    session     \* the checkout session Stripe holds, once created

vars == <<users, clock, bot, users0, applied, pc, request, event, local, response, trace,
          apc, aargs, aresult, cpc, data, cresponse, session>>
hvars == <<pc, request, event, local, response, trace>>
avars == <<apc, aargs, aresult>>
cvars == <<cpc, data, cresponse, session>>

NoResponse == [status |-> 0, body |-> ""]
Json(status, body) == [status |-> status, body |-> body]
NoLocal == [user_id |-> 0, points_awarded |-> 0, priority_boost |-> 0, user |-> NoRow]
Call(name, ok) == [call |-> name, ok |-> ok]
NoArgs == [user_id |-> 0, referred_by |-> NoRef, initial_points |-> 0]

NoData == [telegram_user_id |-> JNull, paquete_id |-> NoneStr, priority_boost |-> JNull]
NoSession == [created |-> FALSE, metadata |-> Meta(NoneStr, Absent, NoneStr, Absent, Absent)]

InitialPoints == {100}
InitialPriorities == {NoPriority, Priority(3)}

Init ==
    /\ \E p \in InitialPoints, q \in InitialPriorities :
          users = <<Row(1, p, q, NoRef, 0)>>
    /\ users0 = users
    /\ applied = EmptyBag
    /\ clock = 1
    /\ bot \in BOOLEAN
    /\ pc = [h \in Handlers |-> "idle"]
    /\ request = [h \in Handlers |-> Signed(EvNormal)]
    /\ event = [h \in Handlers |-> EvNormal]
    /\ local = [h \in Handlers |-> NoLocal]
    /\ response = [h \in Handlers |-> NoResponse]
    /\ trace = [h \in Handlers |-> <<>>]
    /\ apc = [a \in Adders |-> "idle"]
    /\ aargs = [a \in Adders |-> NoArgs]
    /\ aresult = [a \in Adders |-> FALSE]
    /\ cpc = "idle"
    /\ data = NoData
    /\ cresponse = NoResponse
    /\ session = NoSession

(***************************************************************************)
(* stripe_webhook.                                                         *)
(***************************************************************************)

\* stripe.Webhook.construct_event(payload, stripe_signature, secret): the
\* header must carry a signature of these very bytes under the endpoint's
\* secret, within the timestamp tolerance; then the body is parsed.
\* A verifier that checks the secret and the timestamp but not that the
\* signature covers the bytes received.
SignatureValidAnyBody(req) ==
    /\ req.stripe_signature.present
    /\ req.stripe_signature.secret = STRIPE_WEBHOOK_SECRET
    /\ req.stripe_signature.fresh

SignatureValid(req) ==
    /\ req.stripe_signature.present
    /\ req.stripe_signature.secret = STRIPE_WEBHOOK_SECRET
    /\ req.stripe_signature.over = req.payload
    /\ req.stripe_signature.fresh

ConstructEvent(req) ==
    IF ~SignatureValid(req) THEN "SignatureVerificationError"
    ELSE IF ~req.payload.wellformed THEN "ValueError"
    ELSE "ok"

\* A filter that tests only that a project is named: it lets every event pass
\* that names this project or any other.
ProjectMismatchNever(meta) ==
    Truthy(meta.project) /\ meta.project = NoneStr

\* A filter that takes an event naming no project for a foreign one.
ProjectMismatchStrict(meta) == meta.project # PROJECT_IDENTIFIER

\* if event_project and event_project != PROJECT_IDENTIFIER
ProjectMismatch(meta) ==
    Truthy(meta.project) /\ meta.project # PROJECT_IDENTIFIER

\* A conversion that recovers with a default, as the two after it do.
ParseUserIdDefault(meta) ==
    IF PyInt(meta.telegram_user_id).ok THEN PyInt(meta.telegram_user_id)
    ELSE [ok |-> TRUE, val |-> 1]

\* try: user_id = int(user_id_str) except (ValueError, TypeError): return 400
ParseUserId(meta) == PyInt(meta.telegram_user_id)

\* try: int(points_awarded) except (ValueError, TypeError): points_awarded = 0
ParsePointsAwarded(meta) ==
    IF PyInt(meta.points_awarded).ok THEN PyInt(meta.points_awarded).val ELSE 0

\* try: int(priority_boost) except (ValueError, TypeError): priority_boost = 2
ParsePriorityBoost(meta) ==
    IF PyInt(meta.priority_boost).ok THEN PyInt(meta.priority_boost).val
    ELSE DefaultPriorityBoost

\* A test that only asks for a package id.
KnownPackageAny(pkg) == pkg # NoneStr

\* package_id in POINT_PACKAGES
KnownPackage(pkg) == pkg \in DOMAIN POINT_PACKAGES

\* The handler returns: its response is set and it makes the calls in `calls`.
Return(h, resp, calls) ==
    /\ pc' = [pc EXCEPT ![h] = "done"]
    /\ response' = [response EXCEPT ![h] = resp]
    /\ trace' = [trace EXCEPT ![h] = trace[h] \o calls]

\* A handler without the except: the exception leaves the handler and the
\* framework answers 500.
LedgerExceptUncaught(h, calls) ==
    Return(h, Json(500, "Internal Server Error"), calls)

\* except Exception as e: logging.error(...), then the final return (200 ok).
LedgerExcept(h, calls) ==
    Return(h, Json(200, "ok"), calls \o <<Call("log.error", TRUE)>>)

\* From the arrival of its request to its first store call, and from its
\* return to the end of the request, a handler touches nothing shared and has
\* no suspension point: it runs in one piece, and the steps of other processes
\* are placed before or after it.
Quiet == \A g \in Handlers : pc[g] \notin {"received", "verified", "filtered", "done"}

\* payload = await request.body(): a delivery arrives.  Slots are taken in
\* order of arrival.
Deliver(h) ==
    /\ pc[h] = "idle"
    /\ Quiet
    /\ \A g \in Handlers : g < h => pc[g] # "idle"
    /\ \E req \in Requests : request' = [request EXCEPT ![h] = req]
    /\ pc' = [pc EXCEPT ![h] = "received"]
    /\ UNCHANGED <<users, clock, bot, users0, applied, event, local, response, trace, avars, cvars>>

\* construct_event, and HTTPException(400) on either of its two errors.
Verify(h) ==
    /\ pc[h] = "received"
    /\ LET r == ConstructEvent(request[h])
       IN  IF r = "SignatureVerificationError"
           THEN /\ Return(h, Json(400, "Firma invalida"), <<Call("log.error", TRUE)>>)
                /\ UNCHANGED event
           ELSE IF r = "ValueError"
           THEN /\ Return(h, Json(400, "Payload invalido"), <<Call("log.error", TRUE)>>)
                /\ UNCHANGED event
           ELSE /\ event' = [event EXCEPT ![h] = request[h].payload.event]
                /\ pc' = [pc EXCEPT ![h] = "verified"]
                /\ UNCHANGED <<response, trace>>
    /\ UNCHANGED <<users, clock, bot, users0, applied, request, local, avars, cvars>>

\* The project filter on the event object's metadata.
TenantFilter(h) ==
    /\ pc[h] = "verified"
    /\ IF ProjectMismatch(event[h].metadata)
       THEN Return(h, Json(200, "ignored"), <<Call("log.info", TRUE)>>)
       ELSE /\ pc' = [pc EXCEPT ![h] = "filtered"]
            /\ UNCHANGED <<response, trace>>
    /\ UNCHANGED <<users, clock, bot, users0, applied, request, event, local, avars, cvars>>

\* The checkout.session.completed branch up to the ledger step: the three
\* conversions and the test `user_id is not None and package_id in
\* POINT_PACKAGES`.
Extract(h) ==
    /\ pc[h] = "filtered"
    /\ event[h].type = CheckoutCompleted
    /\ LET m == event[h].metadata
           uid == ParseUserId(m)
           pts == ParsePointsAwarded(m)
           boost == ParsePriorityBoost(m)
           logs == (IF PyInt(m.points_awarded).ok THEN <<>> ELSE <<Call("log.error", TRUE)>>)
                   \o (IF PyInt(m.priority_boost).ok THEN <<>> ELSE <<Call("log.warning", TRUE)>>)
       IN  IF ~uid.ok
           THEN /\ Return(h, Json(400, "error"), <<Call("log.error", TRUE)>>)
                /\ UNCHANGED local
           ELSE /\ local' = [local EXCEPT ![h] =
                       [user_id |-> uid.val, points_awarded |-> pts,
                        priority_boost |-> boost, user |-> NoRow]]
                /\ IF KnownPackage(m.package_id)
                   THEN /\ pc' = [pc EXCEPT ![h] = "get_user"]
                        /\ trace' = [trace EXCEPT ![h] = trace[h] \o logs]
                        /\ UNCHANGED response
                   ELSE Return(h, Json(200, "ok"), logs \o <<Call("log.warning", TRUE)>>)
    /\ UNCHANGED <<users, clock, bot, users0, applied, request, event, avars, cvars>>

\* update_user_points, first half: user = get_user(user_id).  The store call
\* can fail (the exception reaches the handler's except Exception); with no
\* row the function logs a warning and returns without writing.
GetUser(h) ==
    /\ pc[h] = "get_user"
    /\ Quiet
    /\ \E ok \in BOOLEAN :
         IF ~ok
         THEN /\ LedgerExcept(h, <<Call("db.select", FALSE)>>)
              /\ UNCHANGED local
         ELSE LET u == FirstOrNone(SelectUsers(users, local[h].user_id))
              IN  IF ~u.found
                  THEN /\ pc' = [pc EXCEPT ![h] = "update_priority"]
                       /\ trace' = [trace EXCEPT ![h] = trace[h] \o
                              <<Call("db.select", TRUE), Call("log.warning", TRUE),
                                Call("log.info", TRUE)>>]
                       /\ UNCHANGED <<local, response>>
                  ELSE /\ local' = [local EXCEPT ![h].user = u.row]
                       /\ pc' = [pc EXCEPT ![h] = "update_points"]
                       /\ trace' = [trace EXCEPT ![h] = Append(trace[h], Call("db.select", TRUE))]
                       /\ UNCHANGED response
    /\ UNCHANGED <<users, clock, bot, users0, applied, request, event, avars, cvars>>

\* update_user_points, second half: new_points = user["points"] + amount and
\* the UPDATE that writes it.
UpdatePoints(h) ==
    /\ pc[h] = "update_points"
    /\ Quiet
    /\ \E ok \in BOOLEAN :
         IF ~ok
         THEN /\ LedgerExcept(h, <<Call("db.update", FALSE)>>)
              /\ UNCHANGED <<users, applied>>
         ELSE /\ users' = UpdatePointsWhere(users, local[h].user_id,
                              NewPoints(local[h].user, local[h].points_awarded))
              /\ applied' = applied (+) SetToBag({event[h]})
              /\ pc' = [pc EXCEPT ![h] = "update_priority"]
              /\ trace' = [trace EXCEPT ![h] = trace[h] \o
                     <<Call("db.update", TRUE), Call("log.info", TRUE), Call("log.info", TRUE)>>]
              /\ UNCHANGED response
    /\ UNCHANGED <<clock, bot, users0, request, event, local, avars, cvars>>

\* database.update_user_priority(user_id, priority_boost): the database module
\* defines no such function, so the attribute lookup raises AttributeError,
\* which the enclosing except Exception logs.  The confirmation message that
\* follows the call in the try body is therefore never sent.
UpdatePriority(h) ==
    /\ pc[h] = "update_priority"
    /\ Quiet
    /\ "update_user_priority" \notin DatabaseAttrs
    /\ LedgerExcept(h, <<>>)
    /\ UNCHANGED <<users, clock, bot, users0, applied, request, event, local, avars, cvars>>

\* The payment_intent.payment_failed branch.  With a bot and a user id the
\* arguments of bot.send_message are evaluated inside the try: int() of the
\* user id, then ParseMode.HTML, a name the module never binds, so NameError
\* (or ValueError before it) is raised before the call and logged.
PaymentFailed(h) ==
    /\ pc[h] = "filtered"
    /\ event[h].type = PaymentFailedType
    /\ "ParseMode" \notin ServerGlobals
    /\ LET m == event[h].metadata
       IN  IF bot /\ m.telegram_user_id.present
           THEN Return(h, Json(200, "ok"), <<Call("log.warning", TRUE), Call("log.error", TRUE)>>)
           ELSE Return(h, Json(200, "ok"), <<Call("log.warning", TRUE)>>)
    /\ UNCHANGED <<users, clock, bot, users0, applied, request, event, local, avars, cvars>>

\* Any other event type falls through to the final return.
OtherEvent(h) ==
    /\ pc[h] = "filtered"
    /\ event[h].type \notin {CheckoutCompleted, PaymentFailedType}
    /\ Return(h, Json(200, "ok"), <<>>)
    /\ UNCHANGED <<users, clock, bot, users0, applied, request, event, local, avars, cvars>>

\* The response has been sent and the request is over.
Close(h) ==
    /\ pc[h] = "done"
    /\ pc' = [pc EXCEPT ![h] = "closed"]
    /\ request' = [request EXCEPT ![h] = Signed(EvNormal)]
    /\ event' = [event EXCEPT ![h] = EvNormal]
    /\ local' = [local EXCEPT ![h] = NoLocal]
    /\ response' = [response EXCEPT ![h] = NoResponse]
    /\ trace' = [trace EXCEPT ![h] = <<>>]
    /\ UNCHANGED <<users, clock, bot, users0, applied, avars, cvars>>

(***************************************************************************)
(* crear_sesion, and the completed-checkout event of the session it made.  *)
(***************************************************************************)
CheckoutRequests ==
    [telegram_user_id : {JNull, JInt(1), JInt(2), JStr(<<"1">>), JStr(<<>>)},
     paquete_id : {"p200", "p500", "p9999", NoneStr},
     priority_boost : {JNull, JInt(0), JInt(3), JStr(<<"1">>), JBool(TRUE)}]

\* The metadata argument of stripe.checkout.Session.create.
SessionMetadata(user_id, paquete_id, priority_boost) ==
    Meta(PROJECT_IDENTIFIER,
         StripeValue(JStr(user_id)),
         paquete_id,
         StripeValue(JInt(POINT_PACKAGES[paquete_id].points)),
         StripeValue(priority_boost))

\* The whole of crear_sesion: the two validations, then the call to Stripe,
\* which creates the session or raises (except Exception: 500).
CrearSesion ==
    /\ cpc = "idle"
    /\ \E d \in CheckoutRequests :
         LET user_id == PyStr(d.telegram_user_id)
             paquete_id == d.paquete_id
             priority_boost == d.priority_boost
         IN  /\ data' = d
             /\ IF user_id = <<>> \/ paquete_id \notin DOMAIN POINT_PACKAGES
                THEN /\ cresponse' = Json(400, "user_id o package_id incorrecto")
                     /\ UNCHANGED session
                ELSE IF priority_boost # JNull /\ ~IsInstanceInt(priority_boost)
                THEN /\ cresponse' = Json(400, "priority_boost debe ser un entero")
                     /\ UNCHANGED session
                ELSE \E ok \in BOOLEAN :
                       IF ok
                       THEN /\ session' = [created |-> TRUE,
                                           metadata |-> SessionMetadata(user_id, paquete_id,
                                                                        priority_boost)]
                            /\ cresponse' = Json(200, "url")
                       ELSE /\ cresponse' = Json(500, "Error interno")
                            /\ UNCHANGED session
    /\ cpc' = "done"
    /\ UNCHANGED <<users, clock, bot, users0, applied, hvars, avars>>

\* The event Stripe sends when the session's payment completes: the event
\* object is the session, with the metadata it was created with.
SessionEvent == Event("evt_s", CheckoutCompleted, session.metadata)

DeliverSession(h) ==
    /\ pc[h] = "idle"
    /\ Quiet
    /\ \A g \in Handlers : g < h => pc[g] # "idle"
    /\ session.created
    /\ request' = [request EXCEPT ![h] = Signed(SessionEvent)]
    /\ pc' = [pc EXCEPT ![h] = "received"]
    /\ UNCHANGED <<users, clock, bot, users0, applied, event, local, response, trace,
                   avars, cvars>>

(***************************************************************************)
(* add_user, called by the bot process that shares the store.              *)
(***************************************************************************)
AddUserArgs ==
    {[user_id |-> 1, referred_by |-> NoRef, initial_points |-> 50],
     [user_id |-> 2, referred_by |-> 1, initial_points |-> 0],
     [user_id |-> 2, referred_by |-> NoRef, initial_points |-> 50]}

AddUserCall(a) ==
    /\ apc[a] = "idle"
    /\ \E args \in AddUserArgs : aargs' = [aargs EXCEPT ![a] = args]
    /\ apc' = [apc EXCEPT ![a] = "get_user"]
    /\ UNCHANGED <<users, clock, bot, users0, applied, hvars, aresult, cvars>>

\* user = get_user(user_id); if user: return False.  add_user has no except:
\* a failing store call raises to the caller.
AddUserGet(a) ==
    /\ apc[a] = "get_user"
    /\ \E ok \in BOOLEAN :
         IF ~ok
         THEN /\ apc' = [apc EXCEPT ![a] = "raised"]
              /\ UNCHANGED aresult
         ELSE IF FirstOrNone(SelectUsers(users, aargs[a].user_id)).found
         THEN /\ apc' = [apc EXCEPT ![a] = "done"]
              /\ aresult' = [aresult EXCEPT ![a] = FALSE]
         ELSE /\ apc' = [apc EXCEPT ![a] = "insert"]
              /\ UNCHANGED aresult
    /\ UNCHANGED <<users, clock, bot, users0, applied, hvars, aargs, cvars>>

\* The INSERT of the new row, and return True; or the store refuses or fails
\* and the exception raises to the caller.
AddUserInsert(a) ==
    /\ apc[a] = "insert"
    /\ \E ok \in BOOLEAN :
         IF ~ok
         THEN /\ apc' = [apc EXCEPT ![a] = "raised"]
              /\ UNCHANGED <<users, clock, aresult>>
         ELSE /\ users' = Append(users, Row(aargs[a].user_id, aargs[a].initial_points,
                                           NoPriority, aargs[a].referred_by, clock))
              /\ clock' = clock + 1
              /\ apc' = [apc EXCEPT ![a] = "done"]
              /\ aresult' = [aresult EXCEPT ![a] = TRUE]
    /\ UNCHANGED <<bot, users0, applied, hvars, aargs, cvars>>

Next ==
    \/ \E h \in Handlers : Deliver(h)
    \/ \E h \in Handlers : Verify(h)
    \/ \E h \in Handlers : TenantFilter(h)
    \/ \E h \in Handlers : Extract(h)
    \/ \E h \in Handlers : GetUser(h)
    \/ \E h \in Handlers : UpdatePoints(h)
    \/ \E h \in Handlers : UpdatePriority(h)
    \/ \E h \in Handlers : PaymentFailed(h)
    \/ \E h \in Handlers : OtherEvent(h)
    \/ \E h \in Handlers : Close(h)

\* The webhook server: its handlers over a store whose accounts were
\* provisioned before.
Spec == Init /\ [][Next]_vars

\* The server runs every handler it has started to its end: a step that can
\* be taken is taken.
FairSpec == Spec /\ WF_vars(Next)

NextCheckout ==
    \/ CrearSesion
    \/ \E h \in Handlers : DeliverSession(h)
    \/ \E h \in Handlers : Verify(h)
    \/ \E h \in Handlers : TenantFilter(h)
    \/ \E h \in Handlers : Extract(h)
    \/ \E h \in Handlers : GetUser(h)
    \/ \E h \in Handlers : UpdatePoints(h)
    \/ \E h \in Handlers : UpdatePriority(h)
    \/ \E h \in Handlers : Close(h)

\* One checkout: the session crear_sesion creates and the deliveries of its
\* completed event.
SpecCheckout == Init /\ [][NextCheckout]_vars

NextAdd ==
    \/ \E a \in Adders : AddUserCall(a)
    \/ \E a \in Adders : AddUserGet(a)
    \/ \E a \in Adders : AddUserInsert(a)

\* The callers of add_user alone.
SpecAdd == Init /\ [][NextAdd]_vars

(***************************************************************************)
(* Vocabulary of the properties.                                           *)
(***************************************************************************)
StoreCallNames == {"db.select", "db.update", "db.insert", "db.update_priority"}
NotifierCallNames == {"bot.send_message"}

CallsNamed(h, names) == SelectSeq(trace[h], LAMBDA c : c.call \in names)
NoStoreCall(h) == CallsNamed(h, StoreCallNames) = <<>>
NoNotifierCall(h) == CallsNamed(h, NotifierCallNames) = <<>>
Made(h, c) == \E i \in 1..Len(trace[h]) : trace[h][i] = c
NoCallFailed(h) == \A i \in 1..Len(trace[h]) : trace[h][i].ok

\* The delivery is the provider's: signed by it over these bytes, in time.
Genuine(req) == req = Signed(req.payload.event)
Sent(h) == request[h].payload.event

\* The event is for this instance (its project is this one's, or it names none).
TenantMatched(e) == e.metadata.project \in {NoneStr, PROJECT_IDENTIFIER}

\* A verified, tenant-matched checkout.session.completed event with a valid
\* user id and a known package.
Creditable(e) ==
    /\ e.type = CheckoutCompleted
    /\ TenantMatched(e)
    /\ PyInt(e.metadata.telegram_user_id).ok
    /\ e.metadata.package_id \in {"p200", "p500", "p1000"}

UserOf(e) == PyInt(e.metadata.telegram_user_id).val
AmountOf(e) == IF PyInt(e.metadata.points_awarded).ok
               THEN PyInt(e.metadata.points_awarded).val ELSE 0
BoostOf(e) == PyInt(e.metadata.priority_boost).val

HasAccount(table, uid) == \E i \in 1..Len(table) : table[i].user_id = uid
AccountOf(table, uid) == table[CHOOSE i \in 1..Len(table) : table[i].user_id = uid]

RECURSIVE SumAmounts(_)
SumAmounts(S) ==
    IF S = {} THEN 0
    ELSE LET e == CHOOSE x \in S : TRUE IN AmountOf(e) + SumAmounts(S \ {e})

AppliedTo(uid) == {e \in BagToSet(applied) : UserOf(e) = uid}
Finished(h) == pc[h] \in {"idle", "done", "closed"}

(***************************************************************************)
(* C1.  Idempotency: a creditable event delivered twice credits its points *)
(* exactly once.  While the only event applied to an account is e, however *)
(* often it was delivered, the balance is the initial balance plus the     *)
(* points of e.                                                            *)
(***************************************************************************)
C1_CreditedExactlyOnce ==
    \A e \in BagToSet(applied) :
        (Creditable(e) /\ AppliedTo(UserOf(e)) = {e} /\ HasAccount(users0, UserOf(e)))
        => AccountOf(users, UserOf(e)).points
               = AccountOf(users0, UserOf(e)).points + AmountOf(e)

(***************************************************************************)
(* C2.  No lost increment: once all handlers have finished, and they       *)
(* processed distinct events, every account's points are its initial       *)
(* points plus the points of all the events applied to it.                 *)
(***************************************************************************)
C2_NoLostIncrement ==
    ((\A h \in Handlers : Finished(h))
        /\ (\A e \in BagToSet(applied) : CopiesIn(e, applied) = 1))
    => \A i \in 1..Len(users0) :
          AccountOf(users, users0[i].user_id).points
              = users0[i].points + SumAmounts(AppliedTo(users0[i].user_id))

(***************************************************************************)
(* C3.  Priority monotonicity: once the handlers have finished, an account *)
(* to which events with boosts b1..bn were applied has priority            *)
(* min(b1..bn, initial priority), or min(b1..bn) when none was set.        *)
(***************************************************************************)
BoostsApplied(uid) ==
    {(IF PyInt(e.metadata.priority_boost).ok THEN BoostOf(e) ELSE DefaultPriorityBoost) :
        e \in AppliedTo(uid)}
    \cup (IF AccountOf(users0, uid).priority.set
          THEN {AccountOf(users0, uid).priority.val} ELSE {})
MinOf(S) == CHOOSE m \in S : \A x \in S : m <= x

C3_PriorityIsMinimum ==
    (\A h \in Handlers : Finished(h))
    => \A i \in 1..Len(users0) :
          AppliedTo(users0[i].user_id) # {}
          => AccountOf(users, users0[i].user_id).priority
                 = Priority(MinOf(BoostsApplied(users0[i].user_id)))

(***************************************************************************)
(* C4.  Tenant isolation: a verified event of any type whose metadata      *)
(* names another project makes the handler perform no store call and no    *)
(* notifier call, and answer 200.                                          *)
(***************************************************************************)
C4_TenantIsolation ==
    \A h \in Handlers :
        (pc[h] = "done" /\ Genuine(request[h]) /\ ~TenantMatched(Sent(h)))
        => /\ NoStoreCall(h)
           /\ NoNotifierCall(h)
           /\ response[h].status = 200

C4_Witness ==
    \E h \in Handlers :
        /\ pc[h] = "done"
        /\ request[h] = Signed(EvFailedOther)
        /\ response[h] = Json(200, "ignored")

(***************************************************************************)
(* C5.  Signature rejection: a delivery whose verification fails (wrong or *)
(* missing signature, altered or malformed payload) is answered 400 and    *)
(* processed no further: no store call, no notifier call.                  *)
(***************************************************************************)
C5_SignatureRejection ==
    \A h \in Handlers :
        (pc[h] = "done" /\ ~Genuine(request[h]))
        => /\ response[h].status = 400
           /\ NoStoreCall(h)
           /\ NoNotifierCall(h)
           /\ local[h] = NoLocal

C5_Witness ==
    \E h \in Handlers :
        /\ pc[h] = "done"
        /\ request[h].payload = Payload(TRUE, EvSecond)
        /\ request[h].stripe_signature.over = Payload(TRUE, EvNormal)
        /\ response[h].status = 400

(***************************************************************************)
(* C6.  Malformed metadata safety: a creditable event whose points_awarded *)
(* is missing or not a number and whose priority_boost is an integer       *)
(* credits 0 points, still gives the account the boost under the best-wins *)
(* merge, and is answered 200.                                             *)
(***************************************************************************)
C6_MalformedPointsStillBoosts ==
    \A h \in Handlers :
        (/\ pc[h] = "done"
         /\ Genuine(request[h])
         /\ Creditable(Sent(h))
         /\ ~PyInt(Sent(h).metadata.points_awarded).ok
         /\ PyInt(Sent(h).metadata.priority_boost).ok
         /\ HasAccount(users, UserOf(Sent(h)))
         /\ NoCallFailed(h))
        => /\ local[h].points_awarded = 0
           /\ response[h].status = 200
           /\ AccountOf(users, UserOf(Sent(h))).priority.set
           /\ AccountOf(users, UserOf(Sent(h))).priority.val <= BoostOf(Sent(h))

(***************************************************************************)
(* C7.  No partial ledger effects: no handler ends with the points         *)
(* credited, the priority merge not recorded and the event acknowledged    *)
(* with success.                                                           *)
(***************************************************************************)
C7_NoPartialEffects ==
    \A h \in Handlers :
        pc[h] = "done"
        => ~(/\ Made(h, Call("db.update", TRUE))
             /\ ~Made(h, Call("db.update_priority", TRUE))
             /\ response[h].status = 200)

(***************************************************************************)
(* C8.  Confirmation after credit: with the notifier configured, a handler *)
(* that credited a creditable event to an existing account makes exactly   *)
(* one confirmation send attempt, after the ledger update.                 *)
(***************************************************************************)
C8_ConfirmationAfterCredit ==
    \A h \in Handlers :
        (/\ pc[h] = "done"
         /\ bot
         /\ Genuine(request[h])
         /\ Creditable(Sent(h))
         /\ Made(h, Call("db.update", TRUE)))
        => /\ Len(CallsNamed(h, NotifierCallNames)) = 1
           /\ \E i, j \in 1..Len(trace[h]) :
                 /\ i < j
                 /\ trace[h][i] = Call("db.update", TRUE)
                 /\ trace[h][j].call = "bot.send_message"

(***************************************************************************)
(* C9.  Balance invariant: every account's points are >= 0 in every        *)
(* reachable state.                                                        *)
(***************************************************************************)
C9_PointsNonNegative ==
    \A i \in 1..Len(users) : users[i].points >= 0

(***************************************************************************)
(* C10.  Invalid user id is a hard failure: for a verified, tenant-matched *)
(* checkout.session.completed event whose telegram_user_id is absent or    *)
(* not an integer, the handler makes no store call and no notifier call    *)
(* and returns a structured error-status response.                         *)
(***************************************************************************)
C10_InvalidUserIdStops ==
    \A h \in Handlers :
        (/\ pc[h] = "done"
         /\ Genuine(request[h])
         /\ Sent(h).type = CheckoutCompleted
         /\ TenantMatched(Sent(h))
         /\ ~PyInt(Sent(h).metadata.telegram_user_id).ok)
        => /\ NoStoreCall(h)
           /\ NoNotifierCall(h)
           /\ response[h] = Json(400, "error")

C10_Witness ==
    \E h \in Handlers :
        /\ pc[h] = "done"
        /\ request[h] = Signed(EvBadUser)
        /\ response[h] = Json(400, "error")

(***************************************************************************)
(* C11.  Response codes.  As stated: the handler answers 400 only when     *)
(* verification fails, and 200 to every verified event.                    *)
(***************************************************************************)
C11_Only400OnVerification ==
    \A h \in Handlers :
        pc[h] = "done"
        => /\ response[h].status \in {200, 400}
           /\ response[h].status = 400 <=> ~Genuine(request[h])

\* A verified, tenant-matched checkout event without a usable user id.
InvalidUserIdEvent(e) ==
    /\ e.type = CheckoutCompleted
    /\ TenantMatched(e)
    /\ ~PyInt(e.metadata.telegram_user_id).ok

\* C11 as amended: 400 exactly when verification fails or when a verified,
\* tenant-matched checkout.session.completed event carries no valid user id;
\* every other verified event is answered 200, a store failure included.
C11_ResponseCodes ==
    \A h \in Handlers :
        pc[h] = "done"
        => /\ response[h].status \in {200, 400}
           /\ response[h].status = 400
                 <=> (~Genuine(request[h]) \/ InvalidUserIdEvent(Sent(h)))

C11_Witness ==
    \E h \in Handlers :
        /\ pc[h] = "done"
        /\ Genuine(request[h])
        /\ Made(h, Call("db.update", FALSE))
        /\ response[h].status = 200

AccountIds(table) == {table[i].user_id : i \in 1..Len(table)}

C13_UnknownAccountNotCreated ==
    /\ AccountIds(users) = AccountIds(users0)
    /\ Len(users) = Len(users0)
    /\ \A h \in Handlers :
          (/\ pc[h] \in {"update_points", "update_priority", "done"}
           /\ Genuine(request[h])
           /\ Creditable(Sent(h))
           /\ ~HasAccount(users0, UserOf(Sent(h))))
          => /\ CallsNamed(h, {"db.update", "db.insert", "db.update_priority"}) = <<>>
             /\ pc[h] # "update_points"

C13_Witness ==
    \E h \in Handlers :
        /\ pc[h] = "done"
        /\ request[h] = Signed(EvUser2)
        /\ Made(h, Call("db.select", TRUE))
        /\ users = users0

(***************************************************************************)
(* C18.  Tenant filter decision: a verified event is ignored if and only   *)
(* if its metadata names a project that differs from PROJECT_IDENTIFIER;   *)
(* an event naming no project, or this one, proceeds to the dispatch on    *)
(* the event type.                                                         *)
(***************************************************************************)
PastFilter == {"filtered", "get_user", "update_points", "update_priority"}

C18_TenantFilterDecision ==
    \A h \in Handlers :
        Genuine(request[h])
        => /\ pc[h] = "done"
                 => (response[h] = Json(200, "ignored")
                        <=> (/\ Sent(h).metadata.project # NoneStr
                             /\ Sent(h).metadata.project # PROJECT_IDENTIFIER))
           /\ pc[h] \in PastFilter
                 => Sent(h).metadata.project \in {NoneStr, PROJECT_IDENTIFIER}

C18_Witness ==
    \E h \in Handlers :
        /\ pc[h] = "filtered"
        /\ request[h] = Signed(EvFailed)
        /\ Sent(h).metadata.project = NoneStr

(***************************************************************************)
(* C19.  Payment-failed path: with the notifier configured, a verified,    *)
(* tenant-matched payment_intent.payment_failed event that carries a       *)
(* telegram_user_id makes the handler attempt exactly one failure message, *)
(* call the store not at all, and answer 200.                              *)
(***************************************************************************)
C19_PaymentFailedNotifies ==
    \A h \in Handlers :
        (/\ pc[h] = "done"
         /\ bot
         /\ Genuine(request[h])
         /\ Sent(h).type = PaymentFailedType
         /\ TenantMatched(Sent(h))
         /\ Sent(h).metadata.telegram_user_id.present)
        => /\ Len(CallsNamed(h, NotifierCallNames)) = 1
           /\ NoStoreCall(h)
           /\ response[h].status = 200

(***************************************************************************)
(* C17.  Per-event state machine: every delivery reaches a terminal state  *)
(* (rejected when verification failed, ignored on a tenant mismatch, done  *)
(* otherwise) with a structured response; within one handler the store     *)
(* read, the point credit, the priority merge and the notification are     *)
(* each attempted at most once.                                            *)
(***************************************************************************)
RejectedResponses == {Json(400, "Firma invalida"), Json(400, "Payload invalido")}
IgnoredResponses == {Json(200, "ignored")}
DoneResponses == {Json(200, "ok"), Json(400, "error")}

AtMostOnce(h, name) == Len(CallsNamed(h, {name})) <= 1

C17_Terminal(h) ==
    /\ AtMostOnce(h, "db.select")
    /\ AtMostOnce(h, "db.update")
    /\ AtMostOnce(h, "db.update_priority")
    /\ AtMostOnce(h, "bot.send_message")
    /\ pc[h] = "done"
          => /\ response[h] \in RejectedResponses \cup IgnoredResponses \cup DoneResponses
             /\ response[h] \in RejectedResponses <=> ~Genuine(request[h])
             /\ response[h] \in IgnoredResponses
                   <=> (Genuine(request[h]) /\ ~TenantMatched(Sent(h)))

C17_StateMachine ==
    /\ [](\A h \in Handlers : C17_Terminal(h))
    /\ \A h \in Handlers : (pc[h] = "received") ~> (pc[h] = "done")

C17_Witness ==
    \E h \in Handlers :
        /\ pc[h] = "done"
        /\ request[h] = Signed(EvUser2)
        /\ Made(h, Call("log.error", TRUE))
        /\ response[h] = Json(200, "ok")

(***************************************************************************)
(* C15.  Checkout to credit: a session created for a known package embeds  *)
(* the user id, the package id, the catalog points, the request's          *)
(* priority_boost if supplied and otherwise the catalog's, and this        *)
(* instance's project; so for a request without priority_boost the         *)
(* completed event, once handled with every call succeeding, leaves the    *)
(* account with the catalog points added and priority = min(previous,      *)
(* catalog priority_boost).                                                *)
(***************************************************************************)
CatalogEntry == POINT_PACKAGES[data.paquete_id]

ExpectedBoost ==
    IF data.priority_boost.kind = "int" THEN data.priority_boost.int
    ELSE CatalogEntry.priority_boost

C15_Embedded ==
    /\ session.metadata.telegram_user_id = Str(PyStr(data.telegram_user_id))
    /\ session.metadata.package_id = data.paquete_id
    /\ PyInt(session.metadata.points_awarded) = [ok |-> TRUE, val |-> CatalogEntry.points]
    /\ PyInt(session.metadata.priority_boost) = [ok |-> TRUE, val |-> ExpectedBoost]
    /\ session.metadata.project = PROJECT_IDENTIFIER

C15_Credited(h) ==
    LET before == AccountOf(users0, 1)
        after == AccountOf(users, 1)
    IN  /\ after.points = before.points + CatalogEntry.points
        /\ after.priority.set
        /\ after.priority.val = IF before.priority.set
                                THEN MinOf({before.priority.val, CatalogEntry.priority_boost})
                                ELSE CatalogEntry.priority_boost

C15_CheckoutToCredit ==
    (session.created /\ data.priority_boost.kind \in {"null", "int"})
        => /\ C15_Embedded
           /\ \A h \in Handlers :
                (/\ data.priority_boost = JNull
                 /\ data.telegram_user_id \in {JInt(1), JStr(<<"1">>)}
                 /\ pc[h] = "done"
                 /\ NoCallFailed(h)
                 /\ BagCardinality(applied) = 1)
                    => C15_Credited(h)

(***************************************************************************)
(* C16.  Checkout input validation: crear_sesion answers 400 and creates   *)
(* no session whenever the request lacks telegram_user_id, names a package *)
(* that is not in the catalog, or carries a priority_boost that is present *)
(* and not an integer; a session exists only when all three checks pass.   *)
(***************************************************************************)
LacksUserId == data.telegram_user_id = JNull
UnknownPaquete == data.paquete_id \notin DOMAIN POINT_PACKAGES
BoostNotInteger == data.priority_boost.kind \notin {"null", "int"}

C16_CheckoutValidation ==
    cpc = "done"
        => /\ (LacksUserId \/ UnknownPaquete \/ BoostNotInteger)
                 => (cresponse.status = 400 /\ ~session.created)
           /\ session.created
                 => ~(LacksUserId \/ UnknownPaquete \/ BoostNotInteger)

(***************************************************************************)
(* C20.  Account singleton: however add_user calls interleave, the store   *)
(* holds at most one row per user id and at most one add_user per user id  *)
(* returns True; an add_user for an id that already exists returns False   *)
(* and leaves that account's points, referred_by and created_at unchanged. *)
(***************************************************************************)
ReturnedTrue(uid) ==
    {a \in Adders : apc[a] = "done" /\ aresult[a] /\ aargs[a].user_id = uid}

C20_AccountSingleton ==
    /\ \A uid \in UserIds :
          /\ Len(SelectUsers(users, uid)) <= 1
          /\ Cardinality(ReturnedTrue(uid)) <= 1
    /\ \A a \in Adders :
          (apc[a] = "done" /\ HasAccount(users0, aargs[a].user_id))
             => /\ ~aresult[a]
                /\ SelectUsers(users, aargs[a].user_id) = SelectUsers(users0, aargs[a].user_id)

=============================================================================
